---------------------------- MODULE Spec2Model ----------------------------
(***************************************************************************)
(* Model of the pack object cache (mercury/src/internal/pack/cache.rs) and *)
(* of the pack header / varint readers (mercury/src/internal/pack/utils.rs)*)
(***************************************************************************)
EXTENDS Integers, Sequences, FiniteSets, TLC

VARIABLES
    \* ---- Caches (cache.rs) ----
    map_offset,     \* Caches.map_offset : DashMap<usize, SHA1>
    map_hash,       \* Caches.map_hash   : HashMap<SHA1, Arc<CacheObject>>
    mem_size,       \* Caches.mem_size   : usize
    tmp_files,      \* the files found under Caches.tmp_path
    alive,          \* the threads sharing the cache that have not panicked
    inserted,       \* hash -> the object most recently handed to insert under it
    last,           \* the most recent call on the cache and its outcome
    \* ---- readers (utils.rs) ----
    stream,         \* the bytes behind the Cursor
    pos,            \* the Cursor's position
    offset,         \* the caller's *offset of read_type_and_varint_size
    overflow_checks,\* the build: TRUE = overflow checks on (debug), FALSE = release
    source,         \* how the stream was made: "raw" or the encoded value
    ret,            \* the most recent reader call and what it returned
    \* ---- commit (commit.rs) ----
    index,          \* Index::tracked_entries(0): the tracked entries, in index order
    allow_empty,    \* CommitArgs.allow_empty
    objects,        \* the objects held by storage (LocalStorage under objects/)
    head,           \* the HEAD row of the reference table, if any
    branches,       \* the branch rows of the reference table: name -> commit
    pc,             \* where execute is
    err,            \* why execute panicked, if it did
    todo,           \* the trees create_tree still has to put, in its order
    built,          \* what create_tree returns once its puts are done
    new_commit,     \* the Commit made by Commit::from_tree_id, if any
    history,        \* the commits HEAD has resolved to, oldest first
    \* ---- delta resolution (pack decode) ----
    pack,           \* the decoded entries of the pack, by their offset
    target,         \* the entry whose chain is being resolved
    cursor,         \* the entry the resolution has come to
    depth,          \* the deltas followed so far
    resolved,       \* the outcome of the resolution, once it has one
    \* ---- clear_empty_dir (util.rs) ----
    fs_dirs,        \* the directories of the file system
    fs_files,       \* the files of the file system
    cwd,            \* env::current_dir()
    arg,            \* the path clear_empty_dir is called with
    dir,            \* clear_empty_dir's `dir`
    repo,           \* clear_empty_dir's `repo`
    cpc             \* where clear_empty_dir is

cacheVars == <<map_offset, map_hash, mem_size, tmp_files, alive, inserted, last>>
packVars  == <<stream, pos, offset, overflow_checks, source, ret>>
commitVars == <<index, allow_empty, objects, head, branches, pc, err, todo,
                built, new_commit, history>>
deltaVars == <<pack, target, cursor, depth, resolved>>
dirVars   == <<fs_dirs, fs_files, cwd, arg, dir, repo, cpc>>
vars      == <<cacheVars, packVars, commitVars, deltaVars, dirVars>>

None == [tag |-> "None"]
Some(x) == [tag |-> "Some", val |-> x]
Panic == [tag |-> "panic"]
Ok == [tag |-> "ok"]

(***************************************************************************)
(*                               Bounds                                    *)
(***************************************************************************)
NumThreads  == 3
NumOffsets  == 2
MaxMemSize  == 1
MaxPayload  == 2

Threads  == 1..NumThreads
Offsets  == {10 * i : i \in 1..NumOffsets}
Hashes   == {"X", "Y"}
ZeroHash == "0"
Payloads == {[i \in 1..n |-> 7] : n \in (MaxPayload - 1)..MaxPayload}

\* struct CacheObject
CacheObject ==
    [base_offset : {0}, base_ref : {ZeroHash}, data_decompress : Payloads,
     object_type : {"blob"}, offset : {10}, hash : Hashes]

(***************************************************************************)
(*                        Caches  (cache.rs)                               *)
(***************************************************************************)

\* Caches::new(size, tmp_path)
New(size) ==
    /\ map_offset = << >>
    /\ map_hash = << >>
    /\ mem_size = (IF size = None THEN 0 ELSE size.val)
    /\ tmp_files = {}

\* DashMap::insert / HashMap-style update of one key
MapInsert(m, k, v) == [x \in DOMAIN m \cup {k} |-> IF x = k THEN v ELSE m[x]]

\* Caches::get_hash
get_hash(o) ==
    IF o \in DOMAIN map_offset THEN Some(map_offset[o]) ELSE None

\* Caches::get_by_hash : unimplemented!()
get_by_hash(h) == Panic

get_by_offset_eager(o) ==
    get_by_hash(IF o \in DOMAIN map_offset THEN map_offset[o] ELSE ZeroHash)

\* Caches::get_by_offset
get_by_offset(o) ==
    IF o \in DOMAIN map_offset THEN get_by_hash(map_offset[o]) ELSE None

\* a thread that panics unwinds and makes no further call
Outcome(t, out) == alive' = (IF out = Panic THEN alive \ {t} ELSE alive)

\* Caches::insert : map_offset.insert(offset, hash); unimplemented!()
Insert(t, o, h, obj) ==
    /\ t \in alive
    /\ map_offset' = MapInsert(map_offset, o, h)
    /\ inserted' = MapInsert(inserted, h, obj)
    /\ last' = [op |-> "insert", offset |-> o, hash |-> h, obj |-> obj,
                out |-> Panic]
    /\ Outcome(t, Panic)
    /\ UNCHANGED <<map_hash, mem_size, tmp_files, packVars, commitVars, deltaVars, dirVars>>

GetHash(t, o) ==
    /\ t \in alive
    /\ last' = [op |-> "get_hash", offset |-> o, out |-> get_hash(o)]
    /\ Outcome(t, get_hash(o))
    /\ UNCHANGED <<map_offset, map_hash, mem_size, tmp_files, inserted, packVars, commitVars, deltaVars, dirVars>>

GetByOffset(t, o) ==
    /\ t \in alive
    /\ last' = [op |-> "get_by_offset", offset |-> o, out |-> get_by_offset(o)]
    /\ Outcome(t, get_by_offset(o))
    /\ UNCHANGED <<map_offset, map_hash, mem_size, tmp_files, inserted, packVars, commitVars, deltaVars, dirVars>>

GetByHash(t, h) ==
    /\ t \in alive
    /\ last' = [op |-> "get_by_hash", hash |-> h, out |-> get_by_hash(h)]
    /\ Outcome(t, get_by_hash(h))
    /\ UNCHANGED <<map_offset, map_hash, mem_size, tmp_files, inserted, packVars, commitVars, deltaVars, dirVars>>

\* clear_empty_dir is not running
DirIdle ==
    /\ fs_dirs = {}
    /\ fs_files = {}
    /\ cwd = << >>
    /\ arg = << >>
    /\ dir = << >>
    /\ repo = << >>
    /\ cpc = "idle"

\* no delta chain is being resolved
DeltaIdle ==
    /\ pack = << >>
    /\ target = 0
    /\ cursor = 0
    /\ depth = 0
    /\ resolved = [tag |-> "idle"]

\* no commit is running while the cache or the readers are exercised
CommitIdle ==
    /\ index = << >>
    /\ allow_empty = FALSE
    /\ objects = {}
    /\ head = None
    /\ branches = << >>
    /\ pc = "idle"
    /\ err = ""
    /\ todo = << >>
    /\ built = None
    /\ new_commit = None
    /\ history = << >>

\* the readers are not running while the cache is exercised
PackIdle ==
    /\ stream = << >>
    /\ pos = 0
    /\ offset = 0
    /\ overflow_checks = TRUE
    /\ source = "raw"
    /\ ret = [op |-> "none", out |-> [tag |-> "none"]]

CacheInit ==
    /\ \E size \in {None} \cup {Some(n) : n \in 0..MaxMemSize} : New(size)
    /\ alive = Threads
    /\ inserted = << >>
    /\ last = [op |-> "new", out |-> Ok]
    /\ PackIdle
    /\ CommitIdle
    /\ DeltaIdle
    /\ DirIdle

DoInsert == \E t \in Threads, o \in Offsets, h \in Hashes, obj \in CacheObject :
                Insert(t, o, h, obj)
DoGetHash == \E t \in Threads, o \in Offsets : GetHash(t, o)
DoGetByOffset == \E t \in Threads, o \in Offsets : GetByOffset(t, o)
DoGetByHash == \E t \in Threads, h \in Hashes : GetByHash(t, h)

CacheNext == DoInsert \/ DoGetHash \/ DoGetByOffset \/ DoGetByHash

CacheSpec == CacheInit /\ [][CacheNext]_vars

(***************************************************************************)
(*                     Claims about the cache                              *)
(***************************************************************************)

\* the payload bytes held in memory by map_hash
RECURSIVE ResidentSize(_)
ResidentSize(m) ==
    IF DOMAIN m = {} THEN 0
    ELSE LET h == CHOOSE x \in DOMAIN m : TRUE
         IN Len(m[h].data_decompress)
              + ResidentSize([x \in DOMAIN m \ {h} |-> m[x]])

\* C1: after insert(offset, hash, obj), get_by_offset(offset) and
\* get_by_hash(hash) both return Some(obj), the object that was inserted.
C1_LookupReturnsInserted ==
    /\ (last.op = "get_by_offset" /\ last.offset \in DOMAIN map_offset)
          => last.out = Some(inserted[map_offset[last.offset]])
    /\ (last.op = "get_by_hash" /\ last.hash \in DOMAIN inserted)
          => last.out = Some(inserted[last.hash])

\* C2: an inserted offset keeps its offset->id mapping when its payload is
\* not resident in memory: get_hash(offset) returns the inserted hash and
\* get_by_offset(offset) resolves to an object stored under that hash.
C2_MappingSurvivesEviction ==
    \A o \in DOMAIN map_offset :
        map_offset[o] \notin DOMAIN map_hash =>
            /\ get_hash(o) = Some(map_offset[o])
            /\ (last.op = "get_by_offset" /\ last.offset = o)
                  => /\ last.out.tag = "Some"
                     /\ last.out.val = inserted[map_offset[o]]

\* C4: the payloads resident in memory stay within the ceiling mem_size and
\* every inserted object is still held, resident in map_hash or spilled
\* under tmp_path, so that a later lookup returns it.
C4_CeilingWithSpill ==
    /\ ResidentSize(map_hash) <= mem_size
    /\ \A h \in DOMAIN inserted :
          /\ h \in DOMAIN map_hash \/ h \in tmp_files
          /\ (last.op = "get_by_hash" /\ last.hash = h)
                => last.out = Some(inserted[h])

\* C5: insert on an offset that already has a mapping completes (no hard
\* failure), get_hash(offset) then returns the latest hash, and the mappings
\* of all other offsets are unchanged.
C5_DuplicateOffsetIsSoft ==
    [][(last'.op = "insert" /\ last'.offset \in DOMAIN map_offset)
          => /\ last'.out = Ok
             /\ map_offset'[last'.offset] = last'.hash
             /\ \A o \in DOMAIN map_offset \ {last'.offset} :
                   o \in DOMAIN map_offset' /\ map_offset'[o] = map_offset[o]
      ]_vars

(***************************************************************************)
(*                 Integer arithmetic of the readers                       *)
(***************************************************************************)
\* the width of the u64 accumulators `size` and `value`
W == 64

\* a u8 is a number 0..255; a u64 is the set of its one-bits, a subset of 0..63
BitsTable == [b \in 0..255 |-> {i \in 0..7 : (b \div (2 ^ i)) % 2 = 1}]
Bits8(b) == BitsTable[b]
Val8(S) ==
    (IF 0 \in S THEN 1 ELSE 0) + (IF 1 \in S THEN 2 ELSE 0)
      + (IF 2 \in S THEN 4 ELSE 0) + (IF 3 \in S THEN 8 ELSE 0)
      + (IF 4 \in S THEN 16 ELSE 0) + (IF 5 \in S THEN 32 ELSE 0)
      + (IF 6 \in S THEN 64 ELSE 0) + (IF 7 \in S THEN 128 ELSE 0)
\* u8 & u8
And8(a, b) == Val8(Bits8(a) \cap Bits8(b))
\* u8 >> k
Shr8(a, k) == a \div (2 ^ k)
\* (byte as u64)
AsU64(b) == Bits8(b)
\* u64 | u64
Or64(a, b) == a \cup b
\* u64 << k for 0 <= k < 64: the bits moved past bit 63 are dropped
Shl64(v, k) == {i + k : i \in v} \cap (0..(W - 1))
\* u64 << shift as the build executes it: with overflow checks a shift of 64
\* or more panics, without them the shift amount is masked to its low 6 bits
ShlOverflows(shift) == shift >= W
ShlChecked(v, shift) == Shl64(v, shift % W)

(***************************************************************************)
(*                       The readers (utils.rs)                            *)
(***************************************************************************)
Err(kind, p) == [tag |-> "Err", kind |-> kind, pos |-> p]

\* Cursor::read_exact(&mut [0; 1])
read_exact(s, p) ==
    IF p < Len(s) THEN [tag |-> "Ok", byte |-> s[p + 1], pos |-> p + 1]
    ELSE Err("UnexpectedEof", Len(s))

\* let value = byte & 0b0111_1111
LowSevenBug(byte) == And8(byte, 63)
LowSeven(byte) == And8(byte, 127)

\* let msb = byte >= 128
Msb(byte) == byte >= 128

read_byte_and_check_continuation(s, p) ==
    LET r == read_exact(s, p)
    IN IF r.tag = "Err" THEN r
       ELSE [tag |-> "Ok", value |-> LowSeven(r.byte), msb |-> Msb(r.byte),
             pos |-> r.pos]

\* shift += 7 (read_type_and_varint_size)
SizeNextShift(shift) == shift + 7

\* the while loop of read_type_and_varint_size; `shifts` collects the shift
\* amounts that were executed
RECURSIVE size_loop(_, _, _, _, _, _, _, _)
size_loop(s, p, off, checks, type_bits, size, shift, shifts) ==
    LET r == read_byte_and_check_continuation(s, p)
    IN IF r.tag = "Err"
       THEN [tag |-> "Err", kind |-> r.kind, pos |-> r.pos, offset |-> off]
       ELSE IF ShlOverflows(shift) /\ checks
       THEN [tag |-> "Panic", pos |-> r.pos, offset |-> off + 1,
             shifts |-> shifts \cup {shift}]
       ELSE LET size2 == Or64(size, ShlChecked(AsU64(r.value), shift))
                done == [tag |-> "Ok", type_bits |-> type_bits, size |-> size2,
                         pos |-> r.pos, offset |-> off + 1,
                         shifts |-> shifts \cup {shift}]
            IN IF r.msb
               THEN size_loop(s, p + 1, off + 1, checks, type_bits, size2,
                              SizeNextShift(shift), shifts \cup {shift})
               ELSE done

read_type_and_varint_size(s, p, off, checks) ==
    LET first == read_byte_and_check_continuation(s, p)
    IN IF first.tag = "Err"
       THEN [tag |-> "Err", kind |-> first.kind, pos |-> first.pos, offset |-> off]
       ELSE LET type_bits == Shr8(And8(first.value, 112), 4)
                size == AsU64(And8(first.value, 15))
            IN IF first.msb
               THEN size_loop(s, p + 1, off + 1, checks, type_bits, size, 4, {})
               ELSE [tag |-> "Ok", type_bits |-> type_bits, size |-> size,
                     pos |-> first.pos, offset |-> off + 1, shifts |-> {}]

\* if shift > 63 { return Err(InvalidData, "VarInt too long") }
VarintTooLongLate(shift) == shift > 70
VarintTooLongEarly(shift) == shift >= 63
VarintTooLong(shift) == shift > 63

\* shift += 7 (read_varint_le)
VarintNextShiftBug(shift) == shift + 8
VarintNextShift(shift) == shift + 7

\* the loop of read_varint_le
RECURSIVE varint_loop(_, _, _, _, _, _, _)
varint_loop(s, p, checks, value, shift, n, shifts) ==
    LET r == read_exact(s, p)
    IN IF r.tag = "Err" THEN [tag |-> "Err", kind |-> r.kind, pos |-> r.pos,
                              shifts |-> shifts]
       ELSE IF VarintTooLong(shift)
       THEN [tag |-> "Err", kind |-> "InvalidData", pos |-> r.pos,
             shifts |-> shifts]
       ELSE IF ShlOverflows(shift) /\ checks
       THEN [tag |-> "Panic", pos |-> r.pos, shifts |-> shifts \cup {shift}]
       ELSE LET byte_value == AsU64(And8(r.byte, 127))
                value2 == Or64(value, ShlChecked(byte_value, shift))
            IN IF And8(r.byte, 128) = 0
               THEN [tag |-> "Ok", value |-> value2, n |-> n + 1, pos |-> r.pos,
                     shifts |-> shifts \cup {shift}]
               ELSE varint_loop(s, p + 1, checks, value2, VarintNextShift(shift), n + 1,
                                shifts \cup {shift})

read_varint_le(s, p, checks) == varint_loop(s, p, checks, {}, 0, 0, {})

(***************************************************************************)
(*                  Inputs and runs of the readers                         *)
(***************************************************************************)
MaxShort == 2      \* longest stream made of arbitrary sample bytes
MaxCont  == 11     \* longest run of continuation bytes in a stream
MaxStart == 1      \* bytes the cursor may already have consumed before the call

AllBytes    == 0..255
SampleBytes == {0, 1, 3, 15, 31, 85, 127, 128, 133, 170, 213, 255}
StartOffsets == {0, 5}
ContBytes   == {128, 255}
TermBytes   == {0, 1, 2, 15, 127}
Tails       == {<< >>, <<1>>, <<128>>}

RECURSIVE SeqsUpTo(_, _)
SeqsUpTo(S, n) ==
    IF n = 0 THEN {<< >>}
    ELSE LET shorter == SeqsUpTo(S, n - 1)
         IN shorter \cup {Append(q, b) : q \in {x \in shorter : Len(x) = n - 1}, b \in S}

\* k continuation bytes c, with at most one of them replaced by 0x85
ContRuns ==
    UNION {{[i \in 1..k |-> IF i = j THEN 133 ELSE c] : j \in 0..k} :
             k \in 0..MaxCont, c \in ContBytes}

RawStreams ==
    {<<b>> : b \in AllBytes}
      \cup SeqsUpTo(SampleBytes, MaxShort)
      \cup {<<255, 255, 255, 255, 15>>}
      \cup {run \o <<t>> \o tail : run \in ContRuns, t \in TermBytes, tail \in Tails}
      \cup ContRuns

\* the u64 values that are encoded: for every top bit k, the value with only
\* bit k, with all bits up to k, with bits k and 0, k and k-1, and with every
\* second bit up to k; and zero
Values ==
    {{}} \cup UNION {{ {k}, 0..k, {k, 0}, {k, IF k > 0 THEN k - 1 ELSE 0},
                       {i \in 0..k : (k - i) % 2 = 0} } : k \in 0..(W - 1)}

\* the minimal little-endian base-128 encoding of a u64
RECURSIVE write_varint_le(_)
write_varint_le(v) ==
    LET low  == Val8({i \in v : i < 7})
        rest == {i - 7 : i \in {j \in v : j >= 7}}
    IN IF rest = {} THEN <<low>> ELSE <<low + 128>> \o write_varint_le(rest)

\* the cache is not in use while the readers run
CacheIdle ==
    /\ New(None)
    /\ alive = Threads
    /\ inserted = << >>
    /\ last = [op |-> "new", out |-> Ok]

PackInit ==
    /\ CacheIdle
    /\ CommitIdle
    /\ DeltaIdle
    /\ DirIdle
    /\ overflow_checks \in BOOLEAN
    /\ \/ /\ stream \in RawStreams
          /\ source = [kind |-> "raw"]
       \/ \E v \in Values :
             /\ stream = write_varint_le(v)
             /\ source = [kind |-> "encoded", value |-> v]
    /\ pos \in {p \in 0..MaxStart : p <= Len(stream)}
    /\ offset \in StartOffsets
    /\ ret = [op |-> "none", out |-> [tag |-> "none"]]

\* Read::read(&mut [0; 1]): a Cursor gives the next byte, or no byte at the end
\* of the data; a reader that fails gives an error
read(s, p, broken) ==
    IF broken THEN [tag |-> "Err", n |-> 0, pos |-> p]
    ELSE IF p < Len(s) THEN [tag |-> "Ok", n |-> 1, pos |-> p + 1]
    ELSE [tag |-> "Ok", n |-> 0, pos |-> p]

is_eof_or_error(s, p, broken) ==
    [tag |-> "Ok", eof |-> read(s, p, broken).n = 0,
     pos |-> read(s, p, broken).pos]

\* is_eof: matches!(reader.read(&mut buf), Ok(0))
is_eof(s, p, broken) ==
    [tag |-> "Ok",
     eof |-> read(s, p, broken).tag = "Ok" /\ read(s, p, broken).n = 0,
     pos |-> read(s, p, broken).pos]

\* each run applies one reader to the cursor
Running == ret.op = "none"

IsEof ==
    /\ Running
    /\ \E broken \in BOOLEAN :
          /\ ret' = [op |-> "is_eof", from |-> pos, broken |-> broken,
                     out |-> is_eof(stream, pos, broken)]
          /\ pos' = is_eof(stream, pos, broken).pos
    /\ UNCHANGED <<stream, offset, overflow_checks, source, cacheVars, commitVars, deltaVars, dirVars>>

ReadByteAndCheckContinuation ==
    /\ Running
    /\ LET r == read_byte_and_check_continuation(stream, pos)
       IN /\ ret' = [op |-> "read_byte_and_check_continuation", from |-> pos,
                     out |-> r]
          /\ pos' = r.pos
    /\ UNCHANGED <<stream, offset, overflow_checks, source, cacheVars, commitVars, deltaVars, dirVars>>

ReadTypeAndVarintSize ==
    /\ Running
    /\ LET r == read_type_and_varint_size(stream, pos, offset, overflow_checks)
       IN /\ ret' = [op |-> "read_type_and_varint_size", from |-> pos,
                     offset0 |-> offset, out |-> r]
          /\ pos' = r.pos
          /\ offset' = r.offset
    /\ UNCHANGED <<stream, overflow_checks, source, cacheVars, commitVars, deltaVars, dirVars>>

ReadVarintLe ==
    /\ Running
    /\ LET r == read_varint_le(stream, pos, overflow_checks)
       IN /\ ret' = [op |-> "read_varint_le", from |-> pos, out |-> r]
          /\ pos' = r.pos
    /\ UNCHANGED <<stream, offset, overflow_checks, source, cacheVars, commitVars, deltaVars, dirVars>>

PackNext ==
    \/ ReadByteAndCheckContinuation
    \/ ReadTypeAndVarintSize
    \/ ReadVarintLe
    \/ IsEof

PackSpec == PackInit /\ [][PackNext]_vars

(***************************************************************************)
(*                     Claims about the readers                            *)
(***************************************************************************)
\* the number of bytes with the high bit set that follow position `from`
ContRun(s, from) ==
    CHOOSE k \in 0..(Len(s) - from) :
        /\ \A i \in 1..k : s[from + i] >= 128
        /\ from + k = Len(s) \/ s[from + k + 1] < 128

\* the one-bits of the number sum_i d[i] * 2^(at[i]) for 7-bit digits d[i]
\* placed at bit positions that do not overlap (an unbounded natural)
DigitBits(d, at) == {j \in 0..6 : (d \div (2 ^ j)) % 2 = 1 /\ at >= 0}
PlacedBits(d, at) == {at + j : j \in DigitBits(d, at)}

\* C6: for every byte b, read_byte_and_check_continuation on a stream that
\* starts with b consumes exactly one byte and returns (b & 0x7F, b >= 128);
\* 0xAA gives (42, true), 0x55 (85, false), 0x00 (0, false), 0xFF (127, true).
C6_ByteAndContinuation ==
    (ret.op = "read_byte_and_check_continuation" /\ ret.from < Len(stream)) =>
        LET b == stream[ret.from + 1]
        IN /\ ret.out.tag = "Ok"
           /\ ret.out.value = b % 128
           /\ ret.out.msb = (b \div 128 = 1)
           /\ pos = ret.from + 1
           /\ b = 170 => (ret.out.value = 42 /\ ret.out.msb)
           /\ b = 85 => (ret.out.value = 85 /\ ~ret.out.msb)
           /\ b = 0 => (ret.out.value = 0 /\ ~ret.out.msb)
           /\ b = 255 => (ret.out.value = 127 /\ ret.out.msb)

C6_Witness ==
    /\ ret.op = "read_byte_and_check_continuation"
    /\ ret.from = 1
    /\ Len(stream) = 2
    /\ stream[2] = 170
    /\ ret.out.tag = "Ok"
    /\ ret.out.value = 42
    /\ ret.out.msb
    /\ pos = 2

\* the size a type-and-size header b0..bk denotes: the low 4 bits of b0 and
\* the 7-bit groups of b1..bk at bit 4, 11, 18, ...
HeaderSize(s, from, k) ==
    PlacedBits((s[from + 1] % 16), 0)
        \cup UNION {PlacedBits(s[from + 1 + i] % 128, 4 + 7 * (i - 1)) : i \in 1..k}

\* C7: for every header b0..bk (high bit set on b0..b(k-1), clear on bk),
\* read_type_and_varint_size returns type = bits 4-6 of b0 and
\* size = (b0 & 0x0F) + sum (bi & 0x7F) * 2^(4+7(i-1)), consumes exactly the
\* k+1 bytes and increases *offset by exactly k+1.
C7_TypeAndSize ==
    (ret.op = "read_type_and_varint_size"
        /\ ret.from + ContRun(stream, ret.from) < Len(stream)) =>
        LET k == ContRun(stream, ret.from)
        IN /\ ret.out.tag = "Ok"
           /\ ret.out.type_bits = (stream[ret.from + 1] \div 16) % 8
           /\ ret.out.size = HeaderSize(stream, ret.from, k)
           /\ pos = ret.from + k + 1
           /\ offset = ret.offset0 + k + 1

\* the value a varint b0..b(n-1) denotes: 7-bit groups at bit 0, 7, 14, ...
VarintValue(s, from, n) ==
    UNION {PlacedBits(s[from + 1 + i] % 128, 7 * i) : i \in 0..(n - 1)}

\* the bytes read_varint_le consumed are a varint: n bytes, the continuation
\* bit clear on the last one only
ConsumedVarint(n) ==
    /\ n >= 1
    /\ pos = ret.from + n
    /\ pos <= Len(stream)
    /\ \A i \in 1..(n - 1) : stream[ret.from + i] >= 128
    /\ stream[ret.from + n] < 128

\* C8 as claimed: whenever read_varint_le returns Ok((v, n)) it has consumed
\* exactly n bytes, only the last with the continuation bit clear, and
\* v = sum (bi & 0x7F) * 2^(7i), every byte contributing its full 7 bits.
C8_VarintFullSum ==
    (ret.op = "read_varint_le" /\ ret.out.tag = "Ok") =>
        /\ ConsumedVarint(ret.out.n)
        /\ ret.out.value = VarintValue(stream, ret.from, ret.out.n)

\* C8 as the code has it: whenever read_varint_le returns Ok((v, n)) it has
\* consumed exactly n <= 10 bytes, only the last with the continuation bit
\* clear, and v = (sum (bi & 0x7F) * 2^(7i)) mod 2^64: the tenth byte, at
\* shift 63, contributes only its lowest bit.  [0x85,0x01] gives (133, 2),
\* [0x00] gives (0, 1), [0xFF,0xFF,0xFF,0xFF,0x0F] gives (0xFFFFFFFF, 5).
C8_VarintSumMod64 ==
    (ret.op = "read_varint_le" /\ ret.out.tag = "Ok") =>
        /\ ConsumedVarint(ret.out.n)
        /\ ret.out.n <= 10
        /\ ret.out.value
             = {j \in VarintValue(stream, ret.from, ret.out.n) : j < 64}
        /\ (stream = <<133, 1>> /\ ret.from = 0)
              => (ret.out.value = {0, 2, 7} /\ ret.out.n = 2)
        /\ (stream = <<0>> /\ ret.from = 0)
              => (ret.out.value = {} /\ ret.out.n = 1)
        /\ (stream = <<255, 255, 255, 255, 15>> /\ ret.from = 0)
              => (ret.out.value = 0..31 /\ ret.out.n = 5)

C8_Witness ==
    /\ ret.op = "read_varint_le"
    /\ ret.out.tag = "Ok"
    /\ ret.out.n = 10
    /\ stream[ret.from + 10] = 127
    /\ 63 \in ret.out.value
    /\ Len(stream) > pos

\* the least number of 7-bit groups that hold v
MinimalBytes(v) ==
    IF v = {} THEN 1
    ELSE (CHOOSE top \in v : \A i \in v : i <= top) \div 7 + 1

\* C9: for every u64 v, read_varint_le on write_varint_le(v) returns (v, n)
\* with n the minimal byte count of v (1 for v < 128, 10 for v >= 2^63).
C9_VarintRoundTrip ==
    (ret.op = "read_varint_le" /\ source.kind = "encoded" /\ ret.from = 0) =>
        /\ ret.out.tag = "Ok"
        /\ ret.out.value = source.value
        /\ ret.out.n = MinimalBytes(source.value)
        /\ ret.out.n <= 10
        /\ pos = Len(stream)
        /\ (\A i \in source.value : i < 7) => ret.out.n = 1
        /\ 63 \in source.value => ret.out.n = 10

C9_Witness ==
    /\ ret.op = "read_varint_le"
    /\ source.kind = "encoded"
    /\ ret.from = 0
    /\ source.value = 0..63
    /\ ret.out.tag = "Ok"
    /\ ret.out.value = 0..63
    /\ ret.out.n = 10

\* C10: read_varint_le fails with InvalidData ("VarInt too long") on every
\* input whose first 10 bytes all have the continuation bit set and that has
\* an 11th byte; no shift by more than 63 bits is executed and no byte after
\* the 11th is read.
C10_VarintTooLong ==
    ret.op = "read_varint_le" =>
        /\ ret.out.tag # "Panic"
        /\ \A sh \in ret.out.shifts : sh <= 63
        /\ (ContRun(stream, ret.from) >= 10 /\ Len(stream) >= ret.from + 11) =>
              /\ ret.out.tag = "Err"
              /\ ret.out.kind = "InvalidData"
              /\ pos = ret.from + 11
              /\ ret.out.shifts = {7 * i : i \in 0..9}

C10_Witness ==
    /\ ret.op = "read_varint_le"
    /\ ContRun(stream, ret.from) >= 11
    /\ Len(stream) >= ret.from + 13
    /\ ret.out.tag = "Err"
    /\ ret.out.kind = "InvalidData"
    /\ pos = ret.from + 11

\* the stream ends before the reader `op` called at `from` meets a byte
\* with a clear continuation bit
Truncated(op, s, from) ==
    IF op = "read_byte_and_check_continuation" THEN from = Len(s)
    ELSE from + ContRun(s, from) = Len(s)

\* C11: if the stream ends before a byte with a clear continuation bit has
\* been read (the empty stream included), each of the three readers returns
\* an error and never a value built from the partial input.
C11_TruncatedIsError ==
    (ret.op \notin {"none", "is_eof"} /\ Truncated(ret.op, stream, ret.from)) =>
        ret.out.tag = "Err"

\* ---------------------------------------------------------------------------
\* commit: tracked entries, objects, create_tree
\* ---------------------------------------------------------------------------

MaxEntries == 3

\* every object is a record of one shape; its id is the object itself (the
\* hash is taken as injective on the content)
Object(kind, path, items, tree, parents) ==
    [kind |-> kind, path |-> path, items |-> items, tree |-> tree,
     parents |-> parents]

\* the blob made from the file at `path` when it was added to the index
Blob(path) == Object("blob", path, << >>, << >>, << >>)

\* Tree::from_tree_items: keeps the items in the order given, accepts the
\* empty list
from_tree_items(tree_items) ==
    [tag |-> "Ok", val |-> Object("tree", << >>, tree_items, << >>, << >>)]

to_data_unchecked(tree) == [tag |-> "Ok", kind |-> ""]

\* Tree::to_data, the canonical encoding: refuses duplicate names
to_data(tree) ==
    IF \E i, j \in 1..Len(tree.items) :
           i # j /\ tree.items[i].name = tree.items[j].name
    THEN [tag |-> "Err", kind |-> "DuplicateEntry"]
    ELSE [tag |-> "Ok", kind |-> ""]

\* Commit::from_tree_id
from_tree_id(tree_id, parent_ids) ==
    Object("commit", << >>, << >>, <<tree_id>>, parent_ids)

\* a path is the sequence of its components
Paths ==
    { <<"a.b">>, <<"c">>, <<"a">>, <<"a", "c">>, <<"a", "a.b">>,
      <<"a", "a">>, <<"a", "a", "c">>, <<"c", "a">> }

NameBytes(n) ==
    CASE n = "a"   -> <<97>>
      [] n = "a.b" -> <<97, 46, 98>>
      [] n = "c"   -> <<99>>

RECURSIVE path_to_string(_)
path_to_string(path) ==
    IF Len(path) = 1 THEN NameBytes(path[1])
    ELSE NameBytes(path[1]) \o <<47>> \o path_to_string(Tail(path))

\* the order of strings: byte by byte, a proper prefix first
RECURSIVE StrLess(_, _)
StrLess(x, y) ==
    IF y = << >> THEN FALSE
    ELSE IF x = << >> THEN TRUE
    ELSE IF x[1] # y[1] THEN x[1] < y[1]
    ELSE StrLess(Tail(x), Tail(y))

\* file modes as the index records them: 0o100644, 0o100755, 0o120000 and
\* 0o100600, which is none of the recognized kinds
Modes == {33188, 33261, 40960, 33152}

\* format!("{:o}", mode): the octal digits, most significant first
RECURSIVE format_octal(_)
format_octal(n) ==
    IF n < 8 THEN <<n>> ELSE Append(format_octal(n \div 8), n % 8)

\* TreeItemMode::tree_item_type_from_bytes
tree_item_type_from_bytes(mode) ==
    CASE mode = <<4, 0, 0, 0, 0>>    -> [tag |-> "Ok", val |-> "Tree"]
      [] mode = <<1, 0, 0, 6, 4, 4>> -> [tag |-> "Ok", val |-> "Blob"]
      [] mode = <<1, 0, 0, 7, 5, 5>> -> [tag |-> "Ok", val |-> "Executable"]
      [] mode = <<1, 2, 0, 0, 0, 0>> -> [tag |-> "Ok", val |-> "Symlink"]
      [] OTHER -> [tag |-> "Err", val |-> "UnsupportedMode"]

\* Index::tracked_entries(0) for a set of paths: the entries in the order of
\* their names
tracked_entries(paths, mode_of) ==
    LET names == SortSeq(CHOOSE s \in [1..Cardinality(paths) -> paths] :
                             \A p \in paths : \E i \in DOMAIN s : s[i] = p,
                         LAMBDA p, q : StrLess(path_to_string(p),
                                               path_to_string(q)))
    IN  [i \in DOMAIN names |->
            [name |-> names[i], hash |-> Blob(names[i]),
             mode |-> mode_of[names[i]]]]

\* Index::get(name, 0)
index_get(idx, name) ==
    IF \E i \in DOMAIN idx : idx[i].name = name
    THEN Some(idx[CHOOSE i \in DOMAIN idx : idx[i].name = name])
    ELSE None

\* Path::starts_with, Path::parent and Path::file_name work on components
starts_with(path, base) ==
    Len(base) <= Len(path) /\ SubSeq(path, 1, Len(base)) = base
parent(path) == SubSeq(path, 1, Len(path) - 1)
file_name(path) == path[Len(path)]

TreePanic(why, puts, calls) ==
    [tag |-> "Panic", err |-> why, tree |-> from_tree_items(<< >>).val,
     puts |-> puts, calls |-> calls]

get_blob_entry_lenient(idx, path) ==
    [tag |-> "Ok", err |-> "",
     val |-> [name |-> file_name(path), mode |-> "Blob",
              id |-> index_get(idx, path).val.hash]]

\* the closure get_blob_entry of create_tree
get_blob_entry(idx, path) ==
    LET mete == index_get(idx, path)
    IN  IF mete.tag = "None" THEN [tag |-> "Panic", err |-> "NotInIndex"]
        ELSE LET mode == tree_item_type_from_bytes(format_octal(mete.val.mode))
             IN  IF mode.tag = "Err"
                 THEN [tag |-> "Panic", err |-> mode.val]
                 ELSE [tag |-> "Ok", err |-> "",
                       val |-> [name |-> file_name(path), mode |-> mode.val,
                                id |-> mete.val.hash]]

PutFirst(puts, tree) == <<tree>> \o puts

\* create_tree puts the tree it built after the trees its loop put
PutLast(puts, tree) == Append(puts, tree)

InPathBug(path, current_root) == starts_with(path, current_root)
InPathNever(path, current_root) == FALSE
PushFront(tree_items, item) == <<item>> \o tree_items
PushOnly(tree_items, item) == <<item>>

\* tree_items.push
Push(tree_items, item) == Append(tree_items, item)

\* in_path: the file lies directly in current_root
InPath(path, current_root) == parent(path) = current_root

RECURSIVE create_tree(_, _), tree_loop(_, _, _, _, _, _, _, _)

\* the loop of create_tree over path_entries from position i, with the items,
\* the processed directories, the trees put and the recursive calls made so
\* far (each call with the current root of its caller and its own)
tree_loop(idx, current_root, path_entries, i, tree_items, processed_path, puts, calls) ==
    IF i > Len(path_entries)
    THEN [tag |-> "Ok", err |-> "", items |-> tree_items, puts |-> puts,
          calls |-> calls]
    ELSE
    LET path == path_entries[i]
        in_path == InPath(path, current_root)
    IN  IF in_path
        THEN LET item == get_blob_entry(idx, path)
             IN  IF item.tag = "Panic"
                 THEN [tag |-> "Panic", err |-> item.err,
                       items |-> tree_items, puts |-> puts, calls |-> calls]
                 ELSE tree_loop(idx, current_root, path_entries, i + 1,
                                Push(tree_items, item.val), processed_path,
                                puts, calls)
        ELSE IF Len(path) = 1
        THEN tree_loop(idx, current_root, path_entries, i + 1, tree_items,
                       processed_path, puts, calls)
        ELSE IF Len(current_root) + 1 > Len(path)
        THEN [tag |-> "Panic", err |-> "NoComponent", items |-> tree_items,
              puts |-> puts, calls |-> calls]
        ELSE
        LET process_path == path[Len(current_root) + 1]
        IN  IF process_path \in processed_path
            THEN tree_loop(idx, current_root, path_entries, i + 1, tree_items,
                           processed_path, puts, calls)
            ELSE
            LET sub_root == Append(current_root, process_path)
                sub_tree == create_tree(idx, sub_root)
                made == Append(calls, [caller |-> current_root,
                                       root |-> sub_root]) \o sub_tree.calls
            IN  IF sub_tree.tag = "Panic"
                THEN [tag |-> "Panic", err |-> sub_tree.err,
                      items |-> tree_items, puts |-> puts \o sub_tree.puts,
                      calls |-> made]
                ELSE tree_loop(idx, current_root, path_entries, i + 1,
                               Push(tree_items,
                                    [name |-> process_path, mode |-> "Tree",
                                     id |-> sub_tree.tree]),
                               processed_path \cup {process_path},
                               puts \o sub_tree.puts, made)

\* create_tree: the tree of the tracked entries under current_root, the trees
\* it puts to storage, in the order it puts them, and the recursive calls made
create_tree(idx, current_root) ==
    LET path_entries ==
            SelectSeq([i \in DOMAIN idx |-> idx[i].name],
                      LAMBDA path : starts_with(path, current_root))
        loop == tree_loop(idx, current_root, path_entries, 1, << >>, {}, << >>,
                          << >>)
    IN  IF loop.tag = "Panic" THEN TreePanic(loop.err, loop.puts, loop.calls)
        ELSE
        LET tree == from_tree_items(loop.items)
        IN  IF tree.tag = "Err" THEN TreePanic(tree.val, loop.puts, loop.calls)
            ELSE IF to_data(tree.val).tag = "Err"
            THEN TreePanic(to_data(tree.val).kind, loop.puts, loop.calls)
            ELSE [tag |-> "Ok", err |-> "", tree |-> tree.val,
                  puts |-> PutLast(loop.puts, tree.val),
                  calls |-> loop.calls]

NoParents(h, br) == [tag |-> "Ok", val |-> << >>]

\* get_parents_ids: the parents of the new commit, from the reference table
get_parents_ids(h, br) ==
    IF h.tag = "None" THEN [tag |-> "Ok", val |-> << >>]
    ELSE IF h.val.name.tag = "Some"
    THEN IF h.val.name.val \notin DOMAIN br \/ br[h.val.name.val].tag = "None"
         THEN [tag |-> "Panic", val |-> << >>]
         ELSE [tag |-> "Ok", val |-> <<br[h.val.name.val].val>>]
    ELSE IF h.val.commit.tag = "None"
         THEN [tag |-> "Panic", val |-> << >>]
         ELSE [tag |-> "Ok", val |-> <<h.val.commit.val>>]

keep_head(h, br, commit_id) == [tag |-> "Ok", head |-> h, branches |-> br]
update_head_only(h, br, commit_id) ==
    IF h.tag = "None"
    THEN [tag |-> "Ok",
          head |-> Some([name |-> Some("main"), commit |-> None]),
          branches |-> MapInsert(br, "main", Some(commit_id))]
    ELSE [tag |-> "Ok",
          head |-> Some([name |-> h.val.name, commit |-> Some(commit_id)]),
          branches |-> br]

\* update_head: the reference table after the new commit is recorded
update_head(h, br, commit_id) ==
    IF h.tag = "None"
    THEN [tag |-> "Ok",
          head |-> Some([name |-> Some("main"), commit |-> None]),
          branches |-> MapInsert(br, "main", Some(commit_id))]
    ELSE IF h.val.name.tag = "Some"
    THEN IF h.val.name.val \notin DOMAIN br
         THEN [tag |-> "Panic", head |-> h, branches |-> br]
         ELSE [tag |-> "Ok", head |-> h,
               branches |-> MapInsert(br, h.val.name.val, Some(commit_id))]
    ELSE [tag |-> "Ok",
          head |-> Some([name |-> None, commit |-> Some(commit_id)]),
          branches |-> br]

\* what a repository holds before the commit: the empty tree and two commits
EmptyTree == from_tree_items(<< >>).val
FirstCommit == from_tree_id(EmptyTree, << >>)
SecondCommit == from_tree_id(EmptyTree, <<FirstCommit>>)

\* the reference tables a commit can start from: no HEAD (a fresh
\* repository), HEAD on one of two branches, HEAD detached
References ==
    LET two == MapInsert(MapInsert(<< >>, "main", Some(FirstCommit)),
                         "dev", Some(SecondCommit))
    IN  { [head |-> None, branches |-> << >>, objects |-> {},
           history |-> << >>] } \cup
        { [head |-> Some([name |-> Some("main"), commit |-> None]),
           branches |-> two,
           objects |-> {EmptyTree, FirstCommit, SecondCommit},
           history |-> <<FirstCommit>>],
          [head |-> Some([name |-> Some("dev"), commit |-> None]),
           branches |-> two,
           objects |-> {EmptyTree, FirstCommit, SecondCommit},
           history |-> <<FirstCommit, SecondCommit>>],
          [head |-> Some([name |-> None, commit |-> Some(FirstCommit)]),
           branches |-> two,
           objects |-> {EmptyTree, FirstCommit, SecondCommit},
           history |-> <<FirstCommit>>] }

CommitInit ==
    /\ CacheIdle
    /\ PackIdle
    /\ DeltaIdle
    /\ DirIdle
    /\ \E paths \in SUBSET Paths, odd \in Paths, mode \in Modes :
          /\ Cardinality(paths) <= MaxEntries
          /\ index = tracked_entries(paths,
                         [p \in Paths |-> IF p = odd THEN mode ELSE 33188])
    /\ allow_empty \in BOOLEAN
    /\ \E r \in References :
          /\ head = r.head
          /\ branches = r.branches
          /\ objects = r.objects
          /\ history = r.history
    /\ pc = "start"
    /\ err = ""
    /\ todo = << >>
    /\ built = None
    /\ new_commit = None

NothingToCommitBug(tracked, allow) == tracked = << >> /\ allow
NothingToCommitStrict(tracked, allow) == tracked = << >>

\* the check execute makes before it builds anything
NothingToCommit(tracked, allow) == tracked = << >> /\ ~allow

\* execute, up to the call of create_tree: refuses an empty index unless
\* allow_empty is set
ExecuteStart ==
    /\ pc = "start"
    /\ IF NothingToCommit(index, allow_empty)
       THEN /\ pc' = "panic"
            /\ err' = "NothingToCommit"
            /\ UNCHANGED <<todo, built>>
       ELSE /\ pc' = "tree"
            /\ built' = create_tree(index, << >>)
            /\ todo' = built'.puts
            /\ UNCHANGED err
    /\ UNCHANGED <<index, allow_empty, objects, head, branches, new_commit,
                   history,
                   cacheVars, packVars, deltaVars, dirVars>>

\* storage.put of the next tree create_tree has built
PutTree ==
    /\ pc = "tree"
    /\ todo # << >>
    /\ objects' = objects \cup {Head(todo)}
    /\ todo' = Tail(todo)
    /\ UNCHANGED <<index, allow_empty, head, branches, pc, err, built,
                   new_commit, history,
                   cacheVars, packVars, deltaVars, dirVars>>

\* storage.put returns an error and the unwrap panics
PutFails ==
    /\ \/ pc = "tree" /\ todo # << >>
       \/ pc = "commit"
    /\ pc' = "panic"
    /\ err' = "PutFailed"
    /\ UNCHANGED <<index, allow_empty, objects, head, branches, todo, built,
                   new_commit, history,
                   cacheVars, packVars, deltaVars, dirVars>>

\* create_tree returns to execute, or panics where it did
TreeBuilt ==
    /\ pc = "tree"
    /\ todo = << >>
    /\ IF built.tag = "Panic"
       THEN pc' = "panic" /\ err' = built.err
       ELSE pc' = "parents" /\ UNCHANGED err
    /\ UNCHANGED <<index, allow_empty, objects, head, branches, todo, built,
                   new_commit, history,
                   cacheVars, packVars, deltaVars, dirVars>>

\* the references moved as soon as the commit is made, before it is stored
MakeCommitAndMoveHead ==
    /\ pc = "parents"
    /\ LET parents_commit_ids == get_parents_ids(head, branches)
           c == from_tree_id(built.tree, parents_commit_ids.val)
       IN  IF parents_commit_ids.tag = "Panic"
           THEN /\ pc' = "panic"
                /\ err' = "NoParent"
                /\ UNCHANGED <<new_commit, head, branches>>
           ELSE /\ pc' = "commit"
                /\ new_commit' = Some(c)
                /\ head' = update_head(head, branches, c).head
                /\ branches' = update_head(head, branches, c).branches
                /\ UNCHANGED err
    /\ UNCHANGED <<index, allow_empty, objects, todo, built, history,
                   cacheVars, packVars, deltaVars, dirVars>>

\* establish_connection, get_parents_ids and Commit::from_tree_id
MakeCommit ==
    /\ pc = "parents"
    /\ LET parents_commit_ids == get_parents_ids(head, branches)
       IN  IF parents_commit_ids.tag = "Panic"
           THEN /\ pc' = "panic"
                /\ err' = "NoParent"
                /\ UNCHANGED new_commit
           ELSE /\ pc' = "commit"
                /\ new_commit' = Some(from_tree_id(built.tree,
                                                   parents_commit_ids.val))
                /\ UNCHANGED err
    /\ UNCHANGED <<index, allow_empty, objects, head, branches, todo, built,
                   history,
                   cacheVars, packVars, deltaVars, dirVars>>

\* the database cannot be opened or read and the unwrap panics
DbFails ==
    /\ pc = "parents"
    /\ pc' = "panic"
    /\ err' = "DbFailed"
    /\ UNCHANGED <<index, allow_empty, objects, head, branches, todo, built,
                   new_commit, history,
                   cacheVars, packVars, deltaVars, dirVars>>

\* storage.put of the commit
PutCommit ==
    /\ pc = "commit"
    /\ objects' = objects \cup {new_commit.val}
    /\ pc' = "head"
    /\ UNCHANGED <<index, allow_empty, head, branches, err, todo, built,
                   new_commit, history,
                   cacheVars, packVars, deltaVars, dirVars>>

\* update_head with the id of the new commit
UpdateHead ==
    /\ pc = "head"
    /\ LET r == update_head(head, branches, new_commit.val)
       IN  IF r.tag = "Panic"
           THEN /\ pc' = "panic"
                /\ err' = "NoBranch"
                /\ UNCHANGED <<head, branches, history>>
           ELSE /\ pc' = "done"
                /\ head' = r.head
                /\ branches' = r.branches
                /\ history' = Append(history, new_commit.val)
                /\ UNCHANGED err
    /\ UNCHANGED <<index, allow_empty, objects, todo, built, new_commit,
                   cacheVars, packVars, deltaVars, dirVars>>

CommitNext ==
    \/ ExecuteStart
    \/ PutTree
    \/ PutFails
    \/ TreeBuilt
    \/ MakeCommit
    \/ DbFails
    \/ PutCommit
    \/ UpdateHead

CommitSpec == CommitInit /\ [][CommitNext]_vars

\* ---------------------------------------------------------------------------
\* commit after commit on one repository
\* ---------------------------------------------------------------------------

MaxHistory == 4

\* the indexes the commits of a sequence are made from
SeqIndexes ==
    { tracked_entries(paths, [p \in Paths |-> 33188]) :
        paths \in { {}, {<<"c">>}, {<<"a.b">>, <<"a", "c">>} } }

CommitSeqInit ==
    /\ CacheIdle
    /\ PackIdle
    /\ DeltaIdle
    /\ DirIdle
    /\ index \in SeqIndexes
    /\ allow_empty \in BOOLEAN
    /\ \E r \in References :
          /\ head = r.head
          /\ branches = r.branches
          /\ objects = r.objects
          /\ history = r.history
    /\ pc = "start"
    /\ err = ""
    /\ todo = << >>
    /\ built = None
    /\ new_commit = None

\* execute is run again, on the store and the references the last run left
Again ==
    /\ pc = "done"
    /\ Len(history) < MaxHistory
    /\ pc' = "start"
    /\ index' \in SeqIndexes
    /\ allow_empty' \in BOOLEAN
    /\ err' = ""
    /\ todo' = << >>
    /\ built' = None
    /\ new_commit' = None
    /\ UNCHANGED <<objects, head, branches, history, cacheVars, packVars,
                   deltaVars, dirVars>>

CommitSeqNext == CommitNext \/ Again

CommitSeqSpec == CommitSeqInit /\ [][CommitSeqNext]_vars

\* ---------------------------------------------------------------------------
\* commit: properties
\* ---------------------------------------------------------------------------

\* C12: execute called with zero tracked entries and allow_empty = false
\* fails with NothingToCommit in its first step, which writes no object and
\* changes neither HEAD nor a branch, and nothing happens after the failure.
C12_NothingToCommitFirst ==
    [][/\ (pc = "start" /\ index = << >> /\ ~allow_empty) =>
              /\ pc' = "panic" /\ err' = "NothingToCommit"
              /\ objects' = objects /\ head' = head /\ branches' = branches
       /\ pc # "panic"]_vars

C12_Witness ==
    pc = "panic" /\ err = "NothingToCommit" /\ index = << >> /\ ~allow_empty

\* a failure of the environment: storage or the database returned an error
EnvFailure == err \in {"PutFailed", "DbFailed"}

\* C13: execute called with zero tracked entries and allow_empty = true does
\* not fail (unless storage or the database does), and the Commit it makes has
\* the id of the empty Tree as its tree id, the empty Tree being in the store
\* by then, and the Commit being in the store once execute is past its put.
C13_EmptyCommit ==
    (index = << >> /\ allow_empty) =>
        /\ pc = "panic" => EnvFailure
        /\ new_commit.tag = "Some" =>
              /\ new_commit.val.tree = <<EmptyTree>>
              /\ EmptyTree \in objects
        /\ pc \in {"head", "done"} =>
              new_commit.tag = "Some" /\ new_commit.val \in objects

C13_Witness ==
    /\ index = << >> /\ allow_empty /\ pc = "done"
    /\ head.tag = "Some" /\ head.val.name = Some("main")
    /\ branches["main"] = Some(from_tree_id(EmptyTree, << >>))

\* the tracked paths, and the directories that hold one of them directly or
\* further down; the root is a directory whatever is tracked
TrackedPaths == {index[i].name : i \in DOMAIN index}
Dirs == {<< >>} \cup
        UNION {{SubSeq(p, 1, k) : k \in 0..(Len(p) - 1)} : p \in TrackedPaths}

\* the trees reached from `trees` by following the Tree entries named in dir
RECURSIVE Resolve(_, _)
Resolve(trees, folder) ==
    IF folder = << >> THEN trees
    ELSE Resolve(UNION {{t.items[i].id : i \in
                            {i \in DOMAIN t.items :
                                /\ t.items[i].mode = "Tree"
                                /\ t.items[i].name = folder[1]}} : t \in trees},
                 Tail(folder))

\* the tree has one entry per tracked file directly in folder, one Tree entry
\* per directory directly in folder, and nothing else
TreeMatchesDir(tree, folder) ==
    LET files == {p \in TrackedPaths : parent(p) = folder}
        subs  == {d \in Dirs : d # << >> /\ parent(d) = folder}
    IN  /\ Len(tree.items) = Cardinality(files) + Cardinality(subs)
        /\ \A p \in files : \E i \in DOMAIN tree.items :
              /\ tree.items[i].name = file_name(p)
              /\ tree.items[i].mode # "Tree"
              /\ tree.items[i].id = Blob(p)
        /\ \A d \in subs : \E i \in DOMAIN tree.items :
              /\ tree.items[i].name = file_name(d)
              /\ tree.items[i].mode = "Tree"

\* C14: when create_tree returns, it has built one Tree per directory that
\* holds tracked entries directly or further down, and the Tree of each
\* directory has exactly one entry per tracked file directly in it and one
\* Tree entry per immediate subdirectory; so for {a.b, a/c, a/a/c} the root
\* has the two entries a.b and a, with one Tree for a and one for a/a.
C14_OneTreePerDirectory ==
    (built.tag = "Ok") =>
        /\ Len(built.puts) = Cardinality(Dirs)
        /\ \A d \in Dirs :
              /\ Cardinality(Resolve({built.tree}, d)) = 1
              /\ \A t \in Resolve({built.tree}, d) :
                    /\ TreeMatchesDir(t, d)
                    /\ \E i \in DOMAIN built.puts : built.puts[i] = t

C14_Witness ==
    /\ TrackedPaths = {<<"a.b">>, <<"a", "c">>, <<"a", "a", "c">>}
    /\ pc = "done"
    /\ Len(built.puts) = 3
    /\ [i \in DOMAIN built.tree.items |-> built.tree.items[i].name] =
           <<"a.b", "a">>

\* every Tree entry of a stored Tree, and the tree of a stored Commit, is in
\* the store
NoDangling(store) ==
    \A o \in store :
        /\ o.kind = "tree" =>
              \A i \in DOMAIN o.items :
                  o.items[i].mode = "Tree" => o.items[i].id \in store
        /\ o.kind = "commit" => o.tree[1] \in store

\* C15: at every point of a run of execute the store holds no Tree with a
\* Tree entry that is not stored and no Commit whose tree is not stored: each
\* sub-Tree is put before the Tree that refers to it, and the root Tree before
\* the Commit.
C15_BottomUp == NoDangling(objects)

C15_Witness ==
    /\ pc = "tree"
    /\ \E i \in DOMAIN todo : \E j \in DOMAIN todo[i].items :
          /\ todo[i].items[j].mode = "Tree"
          /\ todo[i].items[j].id \in objects
          /\ todo[i] \notin objects

\* C16: the parents of the new Commit are the tip of the branch HEAD names,
\* the commit of a detached HEAD, or none when there is no HEAD; there is
\* never more than one.
C16_ParentsFromHead ==
    (new_commit.tag = "Some") =>
        /\ Len(new_commit.val.parents) <= 1
        /\ pc \in {"commit", "head"} =>
              /\ head.tag = "None" => new_commit.val.parents = << >>
              /\ (head.tag = "Some" /\ head.val.name.tag = "Some") =>
                    new_commit.val.parents =
                        <<branches[head.val.name.val].val>>
              /\ (head.tag = "Some" /\ head.val.name.tag = "None") =>
                    new_commit.val.parents = <<head.val.commit.val>>

C16_Witness ==
    /\ pc = "head"
    /\ head = Some([name |-> Some("dev"), commit |-> None])
    /\ new_commit.val.parents = <<SecondCommit>>
    /\ branches["main"] = Some(FirstCommit)

\* the names of the entries of a tree, in the order the tree holds them
EntryNames(tree) == [i \in DOMAIN tree.items |-> tree.items[i].name]

\* no name of the sequence sorts before a name ahead of it
SortedByName(names) ==
    \A i, j \in DOMAIN names :
        i < j => ~StrLess(NameBytes(names[j]), NameBytes(names[i]))

GitKey(item) ==
    NameBytes(item.name) \o (IF item.mode = "Tree" THEN <<47>> ELSE << >>)

Unsupported ==
    {index[i].name : i \in
        {i \in DOMAIN index :
            tree_item_type_from_bytes(format_octal(index[i].mode)).tag = "Err"}}

\* C19: when a tracked entry has a mode that is none of the four recognized
\* kinds, create_tree fails and execute goes no further; no Tree it has built
\* holds that entry, and the failure is UnsupportedMode unless a tracked file
\* that is also a directory made it fail before.
C19_UnsupportedMode ==
    (Unsupported # {} /\ built.tag # "None") =>
        /\ built.tag = "Panic"
        /\ pc \in {"tree", "panic"}
        /\ (TrackedPaths \cap Dirs = {}) => built.err = "UnsupportedMode"
        /\ (pc = "panic" /\ TrackedPaths \cap Dirs = {}) =>
              err \in {"UnsupportedMode", "PutFailed"}
        /\ \A p \in Unsupported : \A t \in objects \cup
                       {built.puts[k] : k \in DOMAIN built.puts} :
              \A i \in DOMAIN t.items : t.items[i].id # Blob(p)

C19_Witness ==
    /\ Unsupported = {<<"c">>}
    /\ <<"a", "c">> \in TrackedPaths
    /\ pc = "panic"
    /\ err = "UnsupportedMode"
    /\ Len(built.puts) = 1
    /\ built.puts[1] \in objects

\* C20: running execute leaves the HEAD and branch records as they were.
C20_ReferencesUntouched ==
    [][head' = head /\ branches' = branches]_vars

\* C20 (amended): execute changes the references itself, in its last step and
\* only there, once the Commit is in the store: update_head sets the commit of
\* the branch HEAD names, or the commit of a detached HEAD, or with no HEAD
\* creates the branch main at the Commit and a HEAD naming main; every other
\* record, and every earlier step, leaves the references as they were.
C20_OnlyUpdateHead ==
    [][/\ pc # "head" => (head' = head /\ branches' = branches)
       /\ pc = "head" =>
             /\ pc' = "done"
             /\ new_commit.val \in objects
             /\ LET b == IF head.tag = "None" THEN "main"
                         ELSE IF head.val.name.tag = "Some"
                         THEN head.val.name.val ELSE ""
                IN  /\ \A n \in DOMAIN branches :
                          n # b => (n \in DOMAIN branches' /\
                                    branches'[n] = branches[n])
                    /\ DOMAIN branches' = DOMAIN branches \cup ({b} \ {""})
                    /\ b # "" => branches'[b] = Some(new_commit.val)
                    /\ head.tag = "None" =>
                          head' = Some([name |-> Some("main"),
                                        commit |-> None])
                    /\ (head.tag = "Some" /\ b # "") => head' = head
                    /\ b = "" =>
                          head' = Some([name |-> None,
                                        commit |-> Some(new_commit.val)])]_vars

C20_Witness ==
    /\ pc = "done"
    /\ head = Some([name |-> Some("dev"), commit |-> None])
    /\ branches["dev"] = Some(new_commit.val)
    /\ branches["main"] = Some(FirstCommit)
    /\ new_commit.val.parents = <<SecondCommit>>

\* ---------------------------------------------------------------------------
\* delta resolution: a chain of deltas is followed to its full object
\* ---------------------------------------------------------------------------

\* the ceiling on the deltas of one chain
DeltaLimit == 2

\* the offsets of the entries of the pack, and the id of the object each
\* entry decodes to
PackOffsets == {12, 20, 31, 47}
IdOf == (12 :> "A") @@ (20 :> "B") @@ (31 :> "C") @@ (47 :> "D")

\* a decoded entry: a full object, a delta on the entry base_offset bytes
\* before it, or a delta on the object with the id base_ref
PackEntry(o) ==
    { [object_type |-> "Blob", base_offset |-> 0, base_ref |-> "", offset |-> o,
       hash |-> IdOf[o]] } \cup
    { [object_type |-> "OffsetDelta", base_offset |-> o - b, base_ref |-> "",
       offset |-> o, hash |-> IdOf[o]] : b \in {b \in PackOffsets : b <= o} }
    \cup
    { [object_type |-> "HashDelta", base_offset |-> 0, base_ref |-> IdOf[b],
       offset |-> o, hash |-> IdOf[o]] : b \in PackOffsets }

IsDelta(entry) == entry.object_type \in {"OffsetDelta", "HashDelta"}

\* the offset of the base of a delta entry
BaseOf(entries, entry) ==
    IF entry.object_type = "OffsetDelta" THEN entry.offset - entry.base_offset
    ELSE CHOOSE o \in DOMAIN entries : entries[o].hash = entry.base_ref

\* the packs over a set of offsets: one entry at each
RECURSIVE Packs(_)
Packs(offsets) ==
    IF offsets = {} THEN { << >> }
    ELSE LET o == CHOOSE x \in offsets : TRUE
         IN  { (o :> e) @@ rest : e \in PackEntry(o),
                                  rest \in Packs(offsets \ {o}) }

TooDeepLate(d) == d > DeltaLimit

\* the ceiling is met: a further delta would make the chain too long
TooDeep(d) == d >= DeltaLimit

DeltaInit ==
    /\ CacheIdle
    /\ PackIdle
    /\ CommitIdle
    /\ DirIdle
    /\ pack \in Packs(PackOffsets)
    /\ target \in PackOffsets
    /\ cursor = target
    /\ depth = 0
    /\ resolved = [tag |-> "none"]

\* the entry come to is a full object: the chain is resolved
ResolveFull ==
    /\ resolved.tag = "none"
    /\ ~IsDelta(pack[cursor])
    /\ resolved' = [tag |-> "Ok"]
    /\ UNCHANGED <<pack, target, cursor, depth, cacheVars, packVars,
                   commitVars, dirVars>>

\* the entry come to is a delta below the ceiling: go to its base
ResolveBase ==
    /\ resolved.tag = "none"
    /\ IsDelta(pack[cursor])
    /\ ~TooDeep(depth)
    /\ cursor' = BaseOf(pack, pack[cursor])
    /\ depth' = depth + 1
    /\ UNCHANGED <<pack, target, resolved, cacheVars, packVars, commitVars, dirVars>>

\* the entry come to is a delta at the ceiling
ResolveTooDeep ==
    /\ resolved.tag = "none"
    /\ IsDelta(pack[cursor])
    /\ TooDeep(depth)
    /\ resolved' = [tag |-> "DeltaChainTooDeep"]
    /\ UNCHANGED <<pack, target, cursor, depth, cacheVars, packVars,
                   commitVars, dirVars>>

DeltaNext == ResolveFull \/ ResolveBase \/ ResolveTooDeep

DeltaSpec == DeltaInit /\ [][DeltaNext]_vars

\* a resolution that can take a step takes it
DeltaFairSpec == DeltaSpec /\ WF_vars(DeltaNext)

\* the number of deltas between the entry at o and the full object its chain
\* ends in, or -1 when the chain comes back to an entry it has been through
RECURSIVE ChainDepth(_, _, _)
ChainDepth(entries, o, seen) ==
    IF ~IsDelta(entries[o]) THEN 0
    ELSE IF o \in seen THEN -1
    ELSE LET d == ChainDepth(entries, BaseOf(entries, entries[o]),
                             seen \cup {o})
         IN  IF d = -1 THEN -1 ELSE d + 1

\* C21: the resolution of a chain ends, with the full object of the chain when
\* the chain has at most DeltaLimit deltas (exactly DeltaLimit included), and
\* with DeltaChainTooDeep when it has more or never reaches a full object; it
\* never follows more than DeltaLimit deltas.
C21_BoundedChain ==
    /\ [](LET d == ChainDepth(pack, target, {})
          IN  /\ depth <= DeltaLimit
              /\ resolved.tag = "Ok" =>
                    /\ d # -1 /\ d <= DeltaLimit /\ depth = d
                    /\ ~IsDelta(pack[cursor])
              /\ resolved.tag = "DeltaChainTooDeep" =>
                    (d = -1 \/ d > DeltaLimit))
    /\ <>(resolved.tag \in {"Ok", "DeltaChainTooDeep"})

C21_Witness ==
    /\ resolved.tag = "Ok"
    /\ depth = DeltaLimit
    /\ pack[target].object_type = "HashDelta"
    /\ pack[BaseOf(pack, pack[target])].object_type = "OffsetDelta"

\* C22: is_eof returns true exactly when the one-byte read returns Ok(0):
\* true at the end of the data (also of no data), false while a byte remains
\* (also after part of the data has been read), false when the read fails.
C22_IsEof ==
    (ret.op = "is_eof") =>
        /\ ret.out.eof = (~ret.broken /\ ret.from = Len(stream))
        /\ (~ret.broken /\ ret.from < Len(stream)) => ~ret.out.eof
        /\ ret.broken => ~ret.out.eof

C22_Witness ==
    /\ ret.op = "is_eof"
    /\ ~ret.broken
    /\ ret.from = 1
    /\ Len(stream) = 1
    /\ ret.out.eof

\* the commit HEAD resolves to: the tip of the branch it names, or its own
ResolveHead(h, br) ==
    IF h.tag = "None" THEN None
    ELSE IF h.val.name.tag = "Some" THEN br[h.val.name.val]
    ELSE h.val.commit

\* C23: after any sequence of successful commits HEAD resolves to the last
\* commit, and each commit has the commit HEAD resolved to before it as its
\* only parent (none for the first); a commit with no HEAD creates the branch
\* main at the commit and a HEAD naming main, on a branch it changes the commit
\* of that branch alone, with a detached HEAD the commit of HEAD alone.
C23_HeadFollowsCommits ==
    /\ [](/\ history = << >> => head.tag = "None"
          /\ history # << >> =>
                ResolveHead(head, branches) = Some(history[Len(history)])
          /\ \A k \in DOMAIN history :
                history[k].parents =
                    IF k = 1 THEN << >> ELSE <<history[k - 1]>>)
    /\ [][(history' # history) =>
             /\ head.tag = "None" =>
                   /\ head' = Some([name |-> Some("main"), commit |-> None])
                   /\ DOMAIN branches' = {"main"}
             /\ (head.tag = "Some" /\ head.val.name.tag = "Some") =>
                   /\ head' = head
                   /\ DOMAIN branches' = DOMAIN branches
                   /\ \A n \in DOMAIN branches \ {head.val.name.val} :
                         branches'[n] = branches[n]
             /\ (head.tag = "Some" /\ head.val.name.tag = "None") =>
                   /\ branches' = branches
                   /\ head'.val.name = None]_vars

C23_Witness ==
    /\ pc = "done"
    /\ Len(history) = 2
    /\ head = Some([name |-> Some("main"), commit |-> None])
    /\ DOMAIN branches = {"main"}
    /\ history[1].tree # history[2].tree

\* ---------------------------------------------------------------------------
\* Caches: lookups by offset
\* ---------------------------------------------------------------------------

DirUniverse ==
    { << >>, <<"w">>, <<"w", ".libra">>, <<"w", ".libra", "o">>, <<"w", "x">>,
      <<"w", "x", "y">>, <<"o">>, <<"o", "y">> }
FileUniverse ==
    { <<"w", "x", "f">>, <<"w", "x", "y", "f">>, <<"o", "f">> }

\* Path::is_dir
is_dir(path) == path \in fs_dirs

\* PathBuf::pop: the root stays as it is
pop(path) == IF path = << >> THEN path ELSE parent(path)

\* try_get_storage_path: the .libra of the nearest directory that has one,
\* from the current directory upward
RECURSIVE try_get_storage_path(_)
try_get_storage_path(from) ==
    IF Append(from, ".libra") \in fs_dirs \cup fs_files
    THEN [tag |-> "Ok", val |-> Append(from, ".libra")]
    ELSE IF from = << >> THEN [tag |-> "Err", val |-> << >>]
    ELSE try_get_storage_path(parent(from))

\* is_sub_path(path, parent): path is parent or lies below it
is_sub_path(path, base) == starts_with(path, base)

is_cur_dir_never(path) == FALSE

\* is_cur_dir
is_cur_dir(path) == path = cwd

\* is_empty_dir: a directory with no entry
is_empty_dir(path) ==
    /\ is_dir(path)
    /\ ~\E e \in fs_dirs \cup fs_files : e # << >> /\ parent(e) = path

\* the condition of the while loop of clear_empty_dir
Walking == ~is_sub_path(repo, dir) /\ ~is_cur_dir(dir)

DirInit ==
    /\ CacheIdle
    /\ PackIdle
    /\ CommitIdle
    /\ DeltaIdle
    /\ fs_dirs \in SUBSET DirUniverse
    /\ {<< >>, <<"w">>, <<"w", ".libra">>} \subseteq fs_dirs
    /\ \A d \in fs_dirs : d = << >> \/ parent(d) \in fs_dirs
    /\ fs_files \in SUBSET FileUniverse
    /\ \A f \in fs_files : parent(f) \in fs_dirs
    /\ cwd \in fs_dirs
    /\ arg \in DirUniverse \cup FileUniverse
    /\ dir = << >>
    /\ repo = << >>
    /\ cpc = "call"

\* clear_empty_dir up to its loop: where the walk starts, and storage_path()
Enter ==
    /\ cpc = "call"
    /\ dir' = IF is_dir(arg) THEN arg ELSE parent(arg)
    /\ IF try_get_storage_path(cwd).tag = "Err"
       THEN cpc' = "panic" /\ UNCHANGED repo
       ELSE cpc' = "loop" /\ repo' = try_get_storage_path(cwd).val
    /\ UNCHANGED <<fs_dirs, fs_files, cwd, arg, cacheVars, packVars,
                   commitVars, deltaVars>>

\* an empty directory is removed and the walk goes to its parent
RemoveDir ==
    /\ cpc = "loop"
    /\ Walking
    /\ is_empty_dir(dir)
    /\ fs_dirs' = fs_dirs \ {dir}
    /\ dir' = pop(dir)
    /\ UNCHANGED <<fs_files, cwd, arg, repo, cpc, cacheVars, packVars,
                   commitVars, deltaVars>>

\* fs::remove_dir returns an error and the unwrap panics
RemoveFails ==
    /\ cpc = "loop"
    /\ Walking
    /\ is_empty_dir(dir)
    /\ cpc' = "panic"
    /\ UNCHANGED <<fs_dirs, fs_files, cwd, arg, dir, repo, cacheVars,
                   packVars, commitVars, deltaVars>>

\* a directory that is not empty ends the walk
Break ==
    /\ cpc = "loop"
    /\ Walking
    /\ ~is_empty_dir(dir)
    /\ cpc' = "done"
    /\ UNCHANGED <<fs_dirs, fs_files, cwd, arg, dir, repo, cacheVars,
                   packVars, commitVars, deltaVars>>

\* the walk has come to .libra, to a directory above it or to the current
\* directory
Leave ==
    /\ cpc = "loop"
    /\ ~Walking
    /\ cpc' = "done"
    /\ UNCHANGED <<fs_dirs, fs_files, cwd, arg, dir, repo, cacheVars,
                   packVars, commitVars, deltaVars>>

DirNext == Enter \/ RemoveDir \/ RemoveFails \/ Break \/ Leave

DirSpec == DirInit /\ [][DirNext]_vars

\* a call that can take a step takes it
DirFairSpec == DirSpec /\ WF_vars(DirNext)

\* the directories clear_empty_dir must leave alone: .libra, the root of the
\* working directory and what lies above it, the current directory
Protected == {<< >>, <<"w">>, <<"w", ".libra">>, cwd}

HasEntry(d) ==
    \E e \in fs_dirs \cup fs_files : e # << >> /\ parent(e) = d

\* C25: clear_empty_dir removes nothing but directories, one at a step, each
\* empty when it is removed and each the directory the walk stands at, at or
\* above the path the call was given; a directory that is not empty
\* ends the walk with nothing removed; .libra, the root of the working
\* directory, the directories above it and the current directory are never
\* removed; and every call comes to an end.
C25_ClearEmptyDir ==
    /\ [](Protected \subseteq fs_dirs)
    /\ [][/\ fs_files' = fs_files
          /\ fs_dirs' # fs_dirs =>
                /\ fs_dirs' = fs_dirs \ {dir}
                /\ dir \in fs_dirs
                /\ ~HasEntry(dir)
                /\ dir \notin Protected
                /\ starts_with(arg, dir)
                /\ dir' = parent(dir)
          /\ (cpc = "loop" /\ HasEntry(dir)) =>
                (cpc' = "done" /\ fs_dirs' = fs_dirs)]_vars
    /\ <>(cpc \in {"done", "panic"})

C25_Witness ==
    /\ cpc = "done"
    /\ arg = <<"w", "x", "y", "f">>
    /\ cwd = <<"w">>
    /\ <<"o">> \in fs_dirs
    /\ fs_dirs \cap {<<"w", "x">>, <<"w", "x", "y">>} = {}
    /\ dir = <<"w">>

\* C26: in read_type_and_varint_size every shift applied to a size byte is
\* below 64, and no payload bit of a size byte is shifted out of the 64-bit
\* accumulator, however many continuation bytes the header has.
C26_ShiftBelow64 ==
    (ret.op = "read_type_and_varint_size" /\ ret.out.tag # "Err") =>
        /\ \A sh \in ret.out.shifts : sh < 64
        /\ \A i \in 1..(pos - ret.from - 1) :
              LET sh == 4 + 7 * (i - 1)
              IN \A k \in AsU64(LowSeven(stream[ret.from + i + 1])) : sh + k < W

\* the non-Tree entries reached from a tree, each with the path that leads to
\* it, listed once per way of reaching it
RECURSIVE Leaves(_, _), LeavesFrom(_, _, _)
LeavesFrom(tree, prefix, i) ==
    IF i > Len(tree.items) THEN << >>
    ELSE LET item == tree.items[i]
             here == IF item.mode = "Tree"
                     THEN Leaves(item.id, Append(prefix, item.name))
                     ELSE <<[name |-> Append(prefix, item.name),
                             id |-> item.id]>>
         IN  here \o LeavesFrom(tree, prefix, i + 1)
Leaves(tree, prefix) == LeavesFrom(tree, prefix, 1)

\* the places, among the trees create_tree built, where a non-Tree entry has
\* the file name and the blob id of the tracked entry e
Places(e) ==
    {pl \in UNION {{<<k, j>> : j \in DOMAIN built.puts[k].items} :
                       k \in DOMAIN built.puts} :
        LET item == built.puts[pl[1]].items[pl[2]]
        IN  /\ item.mode # "Tree"
            /\ item.name = file_name(e.name)
            /\ item.id = e.hash}

\* C27: when create_tree returns, every tracked entry is a non-Tree entry of
\* exactly one of the Trees built, the Tree of its parent directory, under its
\* file name and with the blob id of the index; the blob leaves reached from
\* the root Tree are the tracked entries, each once.
C27_LeavesAreTracked ==
    (built.tag = "Ok") =>
        /\ \A n \in DOMAIN index :
              /\ Cardinality(Places(index[n])) = 1
              /\ \A pl \in Places(index[n]) :
                    built.puts[pl[1]] \in
                        Resolve({built.tree}, parent(index[n].name))
        /\ LET leaves == Leaves(built.tree, << >>)
           IN  /\ Len(leaves) = Len(index)
               /\ {leaves[i] : i \in DOMAIN leaves} =
                      {[name |-> index[n].name, id |-> index[n].hash] :
                          n \in DOMAIN index}

C27_Witness ==
    /\ built.tag = "Ok"
    /\ pc = "done"
    /\ TrackedPaths = {<<"c">>, <<"a", "c">>, <<"a", "a", "c">>}
    /\ Len(Leaves(built.tree, << >>)) = 3

\* the ways execute fails before it reaches update_head
EarlyFailures ==
    {"NothingToCommit", "UnsupportedMode", "DuplicateEntry", "NoComponent",
     "PutFailed", "DbFailed", "NoParent"}

\* C28: a run of execute that fails before update_head (nothing to commit, a
\* file mode the tree encoding does not know, a failed put of a tree or of the
\* commit, a failed lookup of the parent) ends with HEAD and every branch as
\* they were when the run began; the objects the run had stored by then stay
\* in the store.
C28_FailureKeepsReferences ==
    (pc = "panic" /\ err \in EarlyFailures) =>
        \E r \in References :
            /\ head = r.head
            /\ branches = r.branches
            /\ history = r.history
            /\ r.objects \subseteq objects

C28_Witness ==
    /\ pc = "panic"
    /\ err = "PutFailed"
    /\ new_commit # None
    /\ head = Some([name |-> Some("dev"), commit |-> None])
    /\ branches["dev"] = Some(SecondCommit)
    /\ \E t \in objects : t.kind = "tree" /\ t # EmptyTree

\* the largest number of components of a tracked path
MaxComponents ==
    IF TrackedPaths = {} THEN 0
    ELSE CHOOSE n \in {Len(p) : p \in TrackedPaths} :
             \A p \in TrackedPaths : Len(p) <= n

\* C29: create_tree comes to an end for every list of tracked paths: each
\* recursive call has a current root one component longer than its caller's,
\* made by a call that was itself made from the root; a call is made only for
\* a root that some tracked entry lies below, so its depth stays below the
\* largest number of components of a tracked path; and no root is called
\* twice, so there are fewer calls than directories.
C29_RecursionBounded ==
    (built.tag # "None") =>
        /\ \A k \in DOMAIN built.calls :
              LET c == built.calls[k]
              IN  /\ Len(c.root) = Len(c.caller) + 1
                  /\ starts_with(c.root, c.caller)
                  /\ c.caller # << >> =>
                        \E j \in 1..(k - 1) : built.calls[j].root = c.caller
                  /\ \E p \in TrackedPaths :
                        starts_with(p, c.root) /\ Len(p) > Len(c.root)
                  /\ Len(c.root) < MaxComponents
                  /\ \A j \in DOMAIN built.calls :
                        j # k => built.calls[j].root # c.root
        /\ Len(built.calls) < Cardinality(Dirs)

C29_Witness ==
    /\ built.tag = "Panic"
    /\ built.err = "NoComponent"
    /\ TrackedPaths = {<<"c">>, <<"a", "a">>, <<"a", "a", "c">>}
    /\ [k \in DOMAIN built.calls |-> built.calls[k].root] =
           <<<<"a">>, <<"a", "a">>>>

=============================================================================
